---- MODULE Spec2Model ----
(***************************************************************************)
(* String sorting benchmark (src/main.cpp): StringSortTester::run and its  *)
(* five algorithms, driven as main drives them: one tester, a sample from  *)
(* the generator, one copy of the sample per call.                         *)
(*                                                                         *)
(* A string is a sequence of byte codes.  An array element is a record     *)
(* [s, tag]: s is the string, tag the position the element had in the      *)
(* sample (a ghost: no comparison reads it).  Indices are 0-based as in    *)
(* the source; At(a, i) reads a[i].                                        *)
(* Every recursive call of the source is a frame of `stack`; an action     *)
(* executes the body of the call on top of the stack and pushes the calls  *)
(* that body makes, in call order.                                         *)
(***************************************************************************)
EXTENDS Integers, Sequences, FiniteSets, TLC

VARIABLES
    sample,     \* the vector returned by gen.getSample (main, line 296)
    algo,       \* the Algo of the current call of run
    arr,        \* arrCopy, the vector run sorts in place
    comps,      \* StringSortTester::comps (line 109)
    fresh,      \* ghost: comps of a tester constructed for this call alone
    pc,         \* "idle" | "running" | "done" | "fault"
    stack,      \* pending recursive calls, next call first
    last,       \* ghost: the partition scan that has just ended, or NoScan
    maxIdx,     \* ghost: largest index of `count` used in this call
    oob,        \* ghost: an element outside the vector was accessed
    nCount,     \* ghost: elements examined by counting passes in this call
    nScan,      \* ghost: elements scanned by partition loops in this call
    nLcp,       \* ghost: sum over suffixLess calls of lcp(a, b) - d + 1
    radixOut    \* ghost: strings left by the last MsdRadix call on sample

vars == <<sample, algo, arr, comps, fresh, pc, stack, last, maxIdx, oob,
          nCount, nScan, nLcp, radixOut>>

(***************************************************************************)
(* Bounds of the model.                                                    *)
(***************************************************************************)
MaxLen == 3
MaxPadCore == 2

\* The strings samples are made of: "", "A", "0", "AA", "A~", ".".
\* 'A' = 65, '0' = 48, '.' = 46 are in the alphabet table, '~' = 126 is not.
Words == { <<>>, <<65>>, <<48>>, <<65, 65>>, <<65, 126>>, <<46>> }

\* Sixteen strings "A0", "AA", "A", "A~" (four times), appended to a sample
\* of at most MaxPadCore strings to make ranges longer than the cutoff.
PadBlock == << <<65, 48>>, <<65, 65>>, <<65>>, <<65, 126>> >>
Pad == PadBlock \o PadBlock \o PadBlock \o PadBlock

CoresUpTo(m) == UNION { [1..n -> Words] : n \in 0..m }
Samples == CoresUpTo(MaxLen) \cup { c \o Pad : c \in CoresUpTo(MaxPadCore) }

Algo == {"StdQuick", "StdMergeLCP", "TernaryQuick", "MsdRadix", "MsdRadixPure"}

\* std::sort is modelled for ranges it sorts by insertion alone.
StdSortThreshold == 16

(***************************************************************************)
(* Helpers.                                                                *)
(***************************************************************************)
Min(S) == CHOOSE x \in S : \A y \in S : x <= y
Max(S) == CHOOSE x \in S : \A y \in S : x >= y

At(a, i) == a[i + 1]
Put(a, i, v) == [a EXCEPT ![i + 1] = v]
\* mutant: a[i] = a[j] in place of the exchange
SwapOverwrite(a, i, j) == [a EXCEPT ![i + 1] = a[j + 1]]
\* std::swap(a[i], a[j])
Swap(a, i, j) == [a EXCEPT ![i + 1] = a[j + 1], ![j + 1] = a[i + 1]]
InRange(a, i) == 0 <= i /\ i < Len(a)

Tagged(v) == [k \in 1..Len(v) |-> [s |-> v[k], tag |-> k]]
Strs(a) == [k \in 1..Len(a) |-> a[k].s]
\* A default-constructed or moved-from std::string.
Empty == [s |-> <<>>, tag |-> 0]

\* a < b for std::string: bytes compared as unsigned char, then length.
StrLess(a, b) ==
    LET n == IF Len(a) < Len(b) THEN Len(a) ELSE Len(b)
        diff == {i \in 1..n : a[i] # b[i]}
    IN  IF diff = {} THEN Len(a) < Len(b)
        ELSE a[Min(diff)] < b[Min(diff)]
\* mutant: the merge takes the left head only when it is smaller
StrLeqStrict(a, b) == StrLess(a, b)
\* a <= b for std::string (line 130)
StrLeq(a, b) == ~StrLess(b, a)

\* (mutant SizeMinusOneSaturated: the wrapped difference clamped to INT_MAX)
\* arr.size() - 1 as the int argument hi of ternaryQuickSort: the size_t
\* difference wraps to 2^64 - 1 for an empty vector, whose low 32 bits are -1.
SizeMinusOneSaturated(n) == IF n = 0 THEN 2147483647 ELSE n - 1
SizeMinusOneAsInt(n) == IF n = 0 THEN -1 ELSE n - 1

RECURSIVE lcpLoop(_, _, _)
lcpLoop(a, b, i) ==
    IF i < Len(a) /\ i < Len(b) /\ a[i + 1] = b[i + 1]
    THEN lcpLoop(a, b, i + 1) ELSE i
lcp(a, b) == lcpLoop(a, b, 0)

(***************************************************************************)
(* StdQuick: std::sort with the counting lambda (lines 85-88).  For a      *)
(* range of at most StdSortThreshold elements libstdc++'s std::sort is its *)
(* insertion sort: an element smaller than the first is moved to the       *)
(* front after one comparison, any other is moved left while it is         *)
(* smaller than its left neighbour.  st = [arr, comps].                    *)
(***************************************************************************)
RECURSIVE linearInsert(_, _, _, _)
linearInsert(a, val, pos, c) ==
    IF StrLess(val.s, At(a, pos - 1).s)
    THEN linearInsert(Put(a, pos, At(a, pos - 1)), val, pos - 1, c + 1)
    ELSE [arr |-> Put(a, pos, val), comps |-> c + 1]

RECURSIVE insertionSort(_, _, _)
insertionSort(a, i, c) ==
    IF i >= Len(a) THEN [arr |-> a, comps |-> c]
    ELSE IF StrLess(At(a, i).s, At(a, 0).s)
         THEN insertionSort(
                  [k \in 1..Len(a) |->
                      IF k = 1 THEN At(a, i)
                      ELSE IF k <= i + 1 THEN a[k - 1] ELSE a[k]],
                  i + 1, c + 1)
         ELSE LET r == linearInsert(a, At(a, i), i, c + 1)
              IN  insertionSort(r.arr, i + 1, r.comps)

stdSort(a) == IF Len(a) = 0 THEN [arr |-> a, comps |-> 0]
              ELSE insertionSort(a, 1, 0)

(***************************************************************************)
(* mergeSortLCP, the merge of lines 123-138.                               *)
(***************************************************************************)
RECURSIVE mergeLoop(_, _, _, _, _, _, _)
mergeLoop(a, i, mid, j, right, temp, c) ==
    IF i < mid /\ j < right
    THEN IF StrLeq(At(a, i).s, At(a, j).s)
         THEN mergeLoop(a, i + 1, mid, j, right, Append(temp, At(a, i)), c + 1)
         ELSE mergeLoop(a, i, mid, j + 1, right, Append(temp, At(a, j)), c + 1)
    ELSE IF i < mid
         THEN mergeLoop(a, i + 1, mid, j, right, Append(temp, At(a, i)), c)
         ELSE IF j < right
              THEN mergeLoop(a, i, mid, j + 1, right, Append(temp, At(a, j)), c)
              ELSE [temp |-> temp, comps |-> c]

\* std::copy(temp.begin(), temp.end(), arr.begin() + left)
CopyBack(dst, off, src) ==
    [k \in 1..Len(dst) |->
        IF off < k /\ k <= off + Len(src) THEN src[k - off] ELSE dst[k]]

merge(a, left, mid, right) ==
    LET r == mergeLoop(a, left, mid, mid, right, <<>>, 0)
    IN  [arr |-> CopyBack(a, left, r.temp), comps |-> r.comps]

(***************************************************************************)
(* ternaryQuickSort, the scan of lines 143-151.  pivot is a reference to   *)
(* arr[lo] (line 144): each comparison reads what arr[lo] holds then.      *)
(* st = [arr, lt, i, gt, scanned].                                         *)
(***************************************************************************)
pivotOf(a, lo) == At(a, lo).s

RECURSIVE tqsLoop(_, _)
tqsLoop(st, lo) ==
    IF st.i > st.gt THEN st
    ELSE LET a == st.arr
             pivot == pivotOf(a, lo)
             n == st.scanned + 1
         IN  IF StrLess(At(a, st.i).s, pivot)
             THEN tqsLoop([st EXCEPT !.arr = Swap(a, st.lt, st.i),
                                     !.lt = @ + 1, !.i = @ + 1,
                                     !.scanned = n], lo)
             ELSE IF StrLess(pivot, At(a, st.i).s)
                  THEN tqsLoop([st EXCEPT !.arr = Swap(a, st.i, st.gt),
                                          !.gt = @ - 1, !.scanned = n], lo)
                  ELSE tqsLoop([st EXCEPT !.i = @ + 1, !.scanned = n], lo)

tqsScan(a, lo, hi) ==
    tqsLoop([arr |-> a, lt |-> lo, i |-> lo + 1, gt |-> hi, scanned |-> 0], lo)

(***************************************************************************)
(* Radix ranks (lines 156-171).                                            *)
(***************************************************************************)
R == 74
cutoff == 15

\* "A".."Z" "a".."z" "0".."9" "!@#%:;^&*()-."
alpha == [i \in 1..26 |-> 64 + i] \o [i \in 1..26 |-> 96 + i]
         \o [i \in 1..10 |-> 47 + i]
         \o <<33, 64, 35, 37, 58, 59, 94, 38, 42, 40, 41, 45, 46>>

\* alpha.find(c): the first position holding c, or npos
charToIndex(c) ==
    IF \E i \in 1..Len(alpha) : alpha[i] = c
    THEN (CHOOSE i \in 1..Len(alpha) :
              alpha[i] = c /\ \A j \in 1..(i - 1) : alpha[j] # c) - 1
    ELSE -1

charAt(s, d) == IF d < Len(s) THEN charToIndex(s[d + 1]) ELSE -1

(***************************************************************************)
(* suffixLess (lines 228-238): [less, comps], comps the increments made.   *)
(* The characters compared are plain char; the model's bytes are below     *)
(* 128, where signed and unsigned char agree.                              *)
(***************************************************************************)
RECURSIVE suffixLessLoop(_, _, _, _)
suffixLessLoop(a, b, i, c) ==
    IF i < Len(a) /\ i < Len(b)
    THEN IF a[i + 1] < b[i + 1] THEN [less |-> TRUE, comps |-> c + 1]
         ELSE IF a[i + 1] > b[i + 1] THEN [less |-> FALSE, comps |-> c + 1]
         ELSE suffixLessLoop(a, b, i + 1, c + 1)
    ELSE [less |-> Len(a) < Len(b), comps |-> c + 1]

\* mutant: the length test after the loop is not counted
suffixLessUncountedTail(a, b, d) ==
    LET r == suffixLessLoop(a, b, d, 0)
    IN  IF lcp(a, b) < Len(a) /\ lcp(a, b) < Len(b) THEN r
        ELSE [r EXCEPT !.comps = @ - 1]
suffixLess(a, b, d) == suffixLessLoop(a, b, d, 0)

\* ghost: the characters a suffixLess(a, b, d) call looks at, by lcp
lcpCost(a, b, d) == lcp(a, b) - d + 1

(***************************************************************************)
(* ternaryQuickSortSuffix, the scan of lines 215-223.                      *)
(* st = [arr, lt, i, gt, scanned, chars, ghost].                           *)
(***************************************************************************)
RECURSIVE tqssLoop(_, _, _)
tqssLoop(st, lo, d) ==
    IF st.i > st.gt THEN st
    ELSE LET a == st.arr
             pivot == pivotOf(a, lo)
             x == At(a, st.i).s
             first == suffixLess(x, pivot, d)
             second == suffixLess(pivot, x, d)
             n == st.scanned + 1
         IN  IF first.less
             THEN tqssLoop([st EXCEPT !.arr = Swap(a, st.lt, st.i),
                                      !.lt = @ + 1, !.i = @ + 1,
                                      !.scanned = n,
                                      !.chars = @ + first.comps,
                                      !.ghost = @ + lcpCost(x, pivot, d)],
                           lo, d)
             ELSE IF second.less
                  THEN tqssLoop([st EXCEPT !.arr = Swap(a, st.i, st.gt),
                                           !.gt = @ - 1, !.scanned = n,
                                           !.chars = @ + first.comps + second.comps,
                                           !.ghost = @ + lcpCost(x, pivot, d)
                                                       + lcpCost(pivot, x, d)],
                                lo, d)
                  ELSE tqssLoop([st EXCEPT !.i = @ + 1, !.scanned = n,
                                           !.chars = @ + first.comps + second.comps,
                                           !.ghost = @ + lcpCost(x, pivot, d)
                                                       + lcpCost(pivot, x, d)],
                                lo, d)

tqssScan(a, lo, hi, d) ==
    tqssLoop([arr |-> a, lt |-> lo, i |-> lo + 1, gt |-> hi, scanned |-> 0,
              chars |-> 0, ghost |-> 0], lo, d)

(***************************************************************************)
(* The counting sort of msdRadixSort (lines 179-190) and msdRadixSortPure  *)
(* (lines 197-208).  count has R + 2 elements, 0..R+1.                     *)
(***************************************************************************)
\* the index of count the counting pass uses for a string
countIndex(s, d) == charAt(s, d) + 2

countInit == [r \in 0..(R + 1) |-> 0]

\* ++count[k] (lines 181, 199).  An index past the end of count (R + 2) is
\* a write outside the vector; where the program goes on, the write fell
\* into the slack of the allocation and no element of count changed.
countInc(count, k) ==
    IF k \in DOMAIN count THEN [count EXCEPT ![k] = @ + 1] ELSE count

\* lines 180-183 (198-201)
RECURSIVE countLoop(_, _, _, _, _)
countLoop(a, i, right, d, count) ==
    IF i < right
    THEN countLoop(a, i + 1, right, d,
                   countInc(count, countIndex(At(a, i).s, d)))
    ELSE count

RECURSIVE sumOver(_, _)
sumOver(count, S) ==
    IF S = {} THEN 0
    ELSE LET j == Min(S) IN count[j] + sumOver(count, S \ {j})

\* lines 184-185 (202-203): count[r + 1] += count[r] for r = 0 .. R leaves
\* in every count[k] the sum of count[0 .. k]
prefixSums(count) ==
    [k \in 0..(R + 1) |-> sumOver(count, {j \in 0..k : count[j] # 0})]

\* the index of count the placement pass uses for a string
placeIndex(s, d) == charAt(s, d) + 1

\* st = [arr, aux, count, ok]: ok is FALSE once a slot outside aux was written
RECURSIVE placeLoop(_, _, _, _)
placeLoop(st, i, right, d) ==
    IF i < right
    THEN LET k == placeIndex(At(st.arr, i).s, d)
             slot == st.count[k]
         IN  placeLoop(
                 [arr |-> Put(st.arr, i, Empty),
                  aux |-> IF InRange(st.aux, slot)
                          THEN Put(st.aux, slot, At(st.arr, i)) ELSE st.aux,
                  count |-> [st.count EXCEPT ![k] = @ + 1],
                  ok |-> st.ok /\ InRange(st.aux, slot)],
                 i + 1, right, d)
    ELSE st

\* indices of count the counting pass of [left, right) at depth d uses
countIndices(a, left, right, d) ==
    {countIndex(At(a, i).s, d) : i \in left..(right - 1)}

countingSort(a, left, right, d) ==
    LET counted == prefixSums(countLoop(a, left, right, d, countInit))
        placed == placeLoop([arr |-> a,
                             aux |-> [k \in 1..(right - left) |-> Empty],
                             count |-> counted, ok |-> TRUE],
                            left, right, d)
    IN  [arr |-> CopyBack(placed.arr, left, placed.aux),
         count |-> placed.count, ok |-> placed.ok]

(***************************************************************************)
(* The state machine.                                                      *)
(***************************************************************************)
NoScan == [k |-> "none"]
None == <<"none">>

Frame(k, a, b, m, d) == [k |-> k, a |-> a, b |-> b, m |-> m, d |-> d]

\* the call run makes for each Algo (lines 83-102)
firstCall(al, n) ==
    CASE al = "StdQuick"     -> Frame("std", 0, n, 0, 0)
      [] al = "StdMergeLCP"  -> Frame("ms", 0, n, 0, 0)
      [] al = "TernaryQuick" -> Frame("tqs", 0, SizeMinusOneAsInt(n), 0, 0)
      [] al = "MsdRadix"     -> Frame("msd", 0, n, 0, 0)
      [] al = "MsdRadixPure" -> Frame("pure", 0, n, 0, 0)

\* mutant: run keeps the count of the call before
compsKept(c) == c
\* comps at the first line of run (line 80)
compsAtEntry(c) == 0

Init ==
    /\ sample \in Samples
    /\ algo = "StdQuick"
    /\ arr = <<>>
    /\ comps = 0
    /\ fresh = 0
    /\ pc = "idle"
    /\ stack = <<>>
    /\ last = NoScan
    /\ maxIdx = 0
    /\ oob = FALSE
    /\ nCount = 0
    /\ nScan = 0
    /\ nLcp = 0
    /\ radixOut = None

\* main, lines 299-300, and run, lines 79-102: a copy of the sample is made
\* and run starts on it, first on a new tester (line 258) and then, as in
\* averageRun and the loop over algos, on the tester earlier calls used
Run(al) ==
    /\ pc \in {"idle", "done"}
    /\ al = "StdQuick" => Len(sample) <= StdSortThreshold
    /\ algo' = al
    /\ arr' = Tagged(sample)
    /\ comps' = compsAtEntry(comps)
    /\ fresh' = 0
    /\ stack' = <<firstCall(al, Len(sample))>>
    /\ pc' = "running"
    /\ last' = NoScan
    /\ maxIdx' = 0
    /\ oob' = FALSE
    /\ nCount' = 0
    /\ nScan' = 0
    /\ nLcp' = 0
    /\ UNCHANGED <<sample, radixOut>>

Top == Head(stack)
Running(k) == pc = "running" /\ stack # <<>> /\ Top.k = k

Charge(n) == comps' = comps + n /\ fresh' = fresh + n

\* lines 85-88
StdSortStep ==
    /\ Running("std")
    /\ LET r == stdSort(arr)
       IN  arr' = r.arr /\ Charge(r.comps)
    /\ stack' = Tail(stack)
    /\ last' = NoScan
    /\ UNCHANGED <<sample, algo, pc, maxIdx, oob, nCount, nScan, nLcp, radixOut>>

\* mergeSortLCP, lines 118-121: the two recursive calls, then the merge
MergeSortCall ==
    /\ Running("ms")
    /\ LET left == Top.a
           right == Top.b
           mid == (left + right) \div 2
       IN  stack' = IF right - left <= 1 THEN Tail(stack)
                    ELSE <<Frame("ms", left, mid, 0, 0),
                           Frame("ms", mid, right, 0, 0),
                           Frame("merge", left, right, mid, 0)>> \o Tail(stack)
    /\ last' = NoScan
    /\ UNCHANGED <<sample, algo, arr, comps, fresh, pc, maxIdx, oob,
                   nCount, nScan, nLcp, radixOut>>

\* mergeSortLCP, lines 123-138
MergeStep ==
    /\ Running("merge")
    /\ LET r == merge(arr, Top.a, Top.m, Top.b)
       IN  arr' = r.arr /\ Charge(r.comps)
    /\ stack' = Tail(stack)
    /\ last' = NoScan
    /\ UNCHANGED <<sample, algo, pc, maxIdx, oob, nCount, nScan, nLcp, radixOut>>

\* ghost record of a scan: the range, the cursors at the end of the loop and
\* p, the string arr[lo] held when the call started
ScanRecord(k, lo, hi, d, p, st) ==
    [k |-> k, lo |-> lo, hi |-> hi, d |-> d, p |-> p, lt |-> st.lt, gt |-> st.gt]

\* ternaryQuickSort, lines 141-154
TernaryCall ==
    /\ Running("tqs")
    /\ LET lo == Top.a
           hi == Top.b
       IN  IF lo >= hi
           THEN /\ stack' = Tail(stack)
                /\ last' = NoScan
                /\ UNCHANGED <<arr, comps, fresh, pc, oob, nScan>>
           ELSE IF ~(InRange(arr, lo) /\ InRange(arr, hi))
           THEN /\ oob' = TRUE
                /\ pc' = "fault"
                /\ last' = NoScan
                /\ UNCHANGED <<arr, comps, fresh, stack, nScan>>
           ELSE LET st == tqsScan(arr, lo, hi)
                IN  /\ arr' = st.arr
                    /\ Charge(st.scanned)
                    /\ nScan' = nScan + st.scanned
                    /\ last' = ScanRecord("tqs", lo, hi, 0, At(arr, lo).s, st)
                    /\ stack' = <<Frame("tqs", lo, st.lt - 1, 0, 0),
                                  Frame("tqs", st.gt + 1, hi, 0, 0)>> \o Tail(stack)
                    /\ UNCHANGED <<pc, oob>>
    /\ UNCHANGED <<sample, algo, maxIdx, nCount, nLcp, radixOut>>

\* ternaryQuickSortSuffix, lines 213-226
SuffixCall ==
    /\ Running("tqss")
    /\ LET lo == Top.a
           hi == Top.b
           d == Top.d
       IN  IF lo >= hi
           THEN /\ stack' = Tail(stack)
                /\ last' = NoScan
                /\ UNCHANGED <<arr, comps, fresh, nScan, nLcp>>
           ELSE LET st == tqssScan(arr, lo, hi, d)
                IN  /\ arr' = st.arr
                    /\ Charge(st.scanned + st.chars)
                    /\ nScan' = nScan + st.scanned
                    /\ nLcp' = nLcp + st.ghost
                    /\ last' = ScanRecord("tqss", lo, hi, d, At(arr, lo).s, st)
                    /\ stack' = <<Frame("tqss", lo, st.lt - 1, 0, d),
                                  Frame("tqss", st.gt + 1, hi, 0, d)>> \o Tail(stack)
    /\ UNCHANGED <<sample, algo, pc, maxIdx, oob, nCount, radixOut>>

\* the recursive calls of lines 191-192 and 209-210, for r = 0 .. R-1 in
\* order.  A call on a range of at most one element returns at its first
\* line (174, 196) and is left out.
RECURSIVE subCalls(_, _, _, _, _)
subCalls(k, count, left, d, r) ==
    IF r >= R THEN <<>>
    ELSE IF left + count[r + 1] <= left + count[r] + 1
         THEN subCalls(k, count, left, d, r + 1)
         ELSE <<Frame(k, left + count[r], left + count[r + 1], 0, d + 1)>>
              \o subCalls(k, count, left, d, r + 1)

\* lines 179-192 and 197-210: the counting pass, the placement and the
\* recursive calls
Bucket(k) ==
    LET left == Top.a
        right == Top.b
        d == Top.d
        r == countingSort(arr, left, right, d)
    IN  /\ arr' = r.arr
        /\ Charge(right - left)
        /\ nCount' = nCount + (right - left)
        /\ maxIdx' = Max({maxIdx} \cup countIndices(arr, left, right, d))
        /\ oob' = (oob \/ ~r.ok)
        /\ stack' = subCalls(k, r.count, left, d, 0) \o Tail(stack)
        /\ pc' = pc

\* ++count[R + 2] (lines 181, 199) is a write past the end of count: a
\* build that checks the access (a hardened or sanitized one) stops there
OutOfCount(left, right, d) ==
    \E i \in countIndices(arr, left, right, d) : i > R + 1

Abort ==
    /\ pc' = "fault"
    /\ maxIdx' = Max({maxIdx} \cup countIndices(arr, Top.a, Top.b, Top.d))
    /\ UNCHANGED <<arr, comps, fresh, stack, oob, nCount>>

\* msdRadixSort, lines 173-193
RadixCall ==
    /\ Running("msd")
    /\ LET left == Top.a
           right == Top.b
       IN  IF right <= left + 1
           THEN /\ stack' = Tail(stack)
                /\ UNCHANGED <<arr, comps, fresh, pc, maxIdx, oob, nCount>>
           ELSE IF right - left <= cutoff
           THEN /\ stack' = <<Frame("tqss", left, right - 1, 0, Top.d)>>
                            \o Tail(stack)
                /\ UNCHANGED <<arr, comps, fresh, pc, maxIdx, oob, nCount>>
           ELSE \/ Bucket("msd")
                \/ OutOfCount(left, right, Top.d) /\ Abort
    /\ last' = NoScan
    /\ UNCHANGED <<sample, algo, nScan, nLcp, radixOut>>

\* msdRadixSortPure, lines 195-211
RadixPureCall ==
    /\ Running("pure")
    /\ LET left == Top.a
           right == Top.b
       IN  IF right <= left + 1
           THEN /\ stack' = Tail(stack)
                /\ UNCHANGED <<arr, comps, fresh, pc, maxIdx, oob, nCount>>
           ELSE \/ Bucket("pure")
                \/ OutOfCount(left, right, Top.d) /\ Abort
    /\ last' = NoScan
    /\ UNCHANGED <<sample, algo, nScan, nLcp, radixOut>>

\* run, lines 104-105: the outermost call has returned
Return ==
    /\ pc = "running"
    /\ stack = <<>>
    /\ pc' = "done"
    /\ radixOut' = IF algo = "MsdRadix" THEN Strs(arr) ELSE radixOut
    /\ last' = NoScan
    /\ UNCHANGED <<sample, algo, arr, comps, fresh, stack, maxIdx, oob,
                   nCount, nScan, nLcp>>

Next ==
    \/ \E al \in Algo : Run(al)
    \/ StdSortStep
    \/ MergeSortCall
    \/ MergeStep
    \/ TernaryCall
    \/ SuffixCall
    \/ RadixCall
    \/ RadixPureCall
    \/ Return

Spec == Init /\ [][Next]_vars

(***************************************************************************)
(* The properties.                                                         *)
(***************************************************************************)
Done == pc = "done"
Occ(v, w) == Cardinality({k \in 1..Len(v) : v[k] = w})
Range(v) == {v[k] : k \in 1..Len(v)}
Sorted(v) == \A k \in 1..(Len(v) - 1) : StrLeq(v[k], v[k + 1])
Moved == Strs(arr) # sample
\* the suffix of s from offset d
Suffix(s, d) == SubSeq(s, d + 1, Len(s))
AgreeOn(s, t, d) == Len(s) >= d /\ Len(t) >= d /\ SubSeq(s, 1, d) = SubSeq(t, 1, d)
RadixAlgo == {"MsdRadix", "MsdRadixPure"}

\* no index past the end of count was used: the call's behaviour is defined
Defined == maxIdx <= R + 1

\* C1: when run returns, the vector is in non-decreasing byte order, for
\* each of the five algorithms (stated for the calls whose behaviour is
\* defined).
C1_SortedOnReturn == (Done /\ Defined) => Sorted(Strs(arr))

\* C2: when run returns, the vector has the length of the input and holds
\* every string as many times as the input did.
C2_Permutation ==
    Done => /\ Len(arr) = Len(sample)
            /\ \A w \in Range(sample) \cup Range(Strs(arr)) :
                   Occ(Strs(arr), w) = Occ(sample, w)
C2_Witness ==
    Done /\ algo = "MsdRadix" /\ Len(sample) > cutoff /\ nCount > 0 /\ Moved

StableOutput ==
    \A i, j \in 1..Len(arr) :
        (i < j /\ arr[i].s = arr[j].s) => arr[i].tag < arr[j].tag

\* C3 as stated: StdMergeLCP, MsdRadix and MsdRadixPure leave equal strings
\* in the order they had in the input.
C3_StableAll ==
    (Done /\ algo \in {"StdMergeLCP", "MsdRadix", "MsdRadixPure"}) => StableOutput
\* C3 as amended: StdMergeLCP and MsdRadixPure leave equal strings in the
\* order they had in the input.
C3_StableMergeAndPure ==
    (Done /\ algo \in {"StdMergeLCP", "MsdRadixPure"}) => StableOutput
C3_Witness ==
    /\ Done /\ algo = "StdMergeLCP" /\ Moved
    /\ \E i, j \in 1..Len(arr) : i < j /\ arr[i].s = arr[j].s

\* C4: MsdRadixPure leaves a copy of the sample string by string as
\* MsdRadix left another copy of it (stated for the calls whose behaviour
\* is defined).
C4_SameAsCutoff ==
    (Done /\ Defined /\ algo = "MsdRadixPure" /\ radixOut # None)
        => Strs(arr) = radixOut

\* C5: in the output of MsdRadix and MsdRadixPure, a string that has ended
\* at offset d, or has there a character outside the table, stands before
\* every string that agrees with it on the first d characters and has a
\* character of the table at offset d (stated for the calls whose behaviour
\* is defined).
C5_EndedFirst ==
    (Done /\ Defined /\ algo \in RadixAlgo) =>
        \A i, j \in 1..Len(arr) : \A d \in 0..2 :
            ( /\ AgreeOn(arr[i].s, arr[j].s, d)
              /\ charAt(arr[i].s, d) = -1
              /\ charAt(arr[j].s, d) >= 0 ) => i < j

\* C6: on an empty or one-element vector run accesses no element outside
\* the vector, and returns with the vector unchanged and comps = 0.
C6_Trivial ==
    Len(sample) <= 1 =>
        /\ ~oob
        /\ pc # "fault"
        /\ Done => (Strs(arr) = sample /\ comps = 0)
C6_Witness == Done /\ algo = "TernaryQuick" /\ sample = <<>> /\ comps = 0

\* C7: the comps a call returns is the comps it returns on a tester made
\* for that call alone, whatever calls the tester served before.
C7_NoLeak == Done => comps = fresh
C7_Witness ==
    Done /\ algo = "TernaryQuick" /\ radixOut # None /\ Len(sample) >= 2 /\ comps > 0

\* a < b and a = b as the scan of kind k compares them
ScanLess(k, a, b, d) ==
    IF k = "tqs" THEN StrLess(a, b) ELSE StrLess(Suffix(a, d), Suffix(b, d))
ScanEq(k, a, b, d) == ~ScanLess(k, a, b, d) /\ ~ScanLess(k, b, a, d)

\* C8: when the scan loop of ternaryQuickSort or ternaryQuickSortSuffix on
\* [lo, hi] ends, lo..lt-1 are less than p, lt..gt equal p and gt+1..hi are
\* greater than p, where p is the string at arr[lo] when the call started.
C8_Partitioned ==
    last.k \in {"tqs", "tqss"} =>
        /\ \A x \in last.lo..(last.lt - 1) :
               ScanLess(last.k, At(arr, x).s, last.p, last.d)
        /\ \A x \in last.lt..last.gt :
               ScanEq(last.k, At(arr, x).s, last.p, last.d)
        /\ \A x \in (last.gt + 1)..last.hi :
               ScanLess(last.k, last.p, At(arr, x).s, last.d)

\* C9: every index of count used by the counting and placement passes is
\* within 0 .. R+1.
C9_CountInBounds == maxIdx <= R + 1

\* C10 as stated: the comps MsdRadix returns is the number of elements
\* examined by counting passes plus the number scanned by partition loops.
C10_OnePerElement ==
    (Done /\ algo = "MsdRadix") => comps = nCount + nScan
\* C10 as amended: it is that number plus, for every suffixLess(a, b, d)
\* call of the partition loops, lcp(a, b) - d + 1: one for each character
\* pair compared and one for the length test after the loop.
C10_WithSuffixChars ==
    (Done /\ algo = "MsdRadix") => comps = nCount + nScan + nLcp
C10_Witness ==
    Done /\ algo = "MsdRadix" /\ nCount > 0 /\ nScan > 0 /\ nLcp > nScan

====
